---- MODULE Spec2Model ----
(***************************************************************************)
(* serialist: serialize / deserialize of JavaScript value graphs.          *)
(*                                                                         *)
(* A JavaScript value is a tagged pair [t, v]; an object is an address of  *)
(* the heap.  The node tree that serialize returns is kept as an arena:    *)
(* nodes[n] is the n-th full node created, and a child is either a         *)
(* primitive, a leaf node (symbol, function, reference) or the index of a  *)
(* full node.  Every full node sits at exactly one position of the tree.   *)
(***************************************************************************)
EXTENDS Integers, Sequences, FiniteSets, TLC

\* ---------------------------------------------------------------- bounds
\* objects of a value graph, fields of a value graph (all objects together),
\* and ids a serializer hands out before it is used no more
MaxObjs == 2
MaxFields == 3
MaxCounter == 2

\* ---------------------------------------------------------------- values
Prim(n) == [t |-> "prim", v |-> n]
Str(n) == [t |-> "string", v |-> n]
Undefined == [t |-> "undefined", v |-> 0]
SymV(s) == [t |-> "symbol", v |-> s]
FunV(f) == [t |-> "function", v |-> f]
ObjV(a) == [t |-> "obj", v |-> a]
\* children of a node of the intermediate form
NodeV(n) == [t |-> "node", v |-> n]
RefV(id) == [t |-> "reference", v |-> id]
SymN(s) == [t |-> "symbolnode", v |-> s]
FunN(f) == [t |-> "functionnode", v |-> f]

\* `id?: number`: absent is <<>>, the number k is <<k>>
NoId == <<>>
SomeId(k) == <<k>>

Min(S) == CHOOSE x \in S : \A y \in S : x <= y
Max(S) == CHOOSE x \in S : \A y \in S : x >= y
Range(s) == {s[i] : i \in 1..Len(s)}

\* ---------------------------------------------------------------- classes
\* constructor identities; two of them share the intrinsic name "Human", and
\* Student is declared `class Student extends Human`
Classes == {"Human", "Human2", "Point", "Meta", "Orphan", "Ghost", "Student"}
CtorName(c) == IF c = "Human2" THEN "Human" ELSE c
Super(c) == IF c = "Student" THEN "Human" ELSE "Object"
\* `x instanceof d` for an object x made by `new c()`
InstanceOf(c, d) == c = d \/ Super(c) = d

\* a heap object; kind is what instanceof / Array.isArray / typeof see
MkObj(kind, ctor, keys, kids, ms, source, flags) ==
  [kind |-> kind, ctor |-> ctor, keys |-> keys, kids |-> kids,
   ms |-> ms, source |-> source, flags |-> flags]
KeyNames == <<"x", "y", "z", "w">>
Record(kids) == MkObj("Object", "Object", SubSeq(KeyNames, 1, Len(kids)), kids, 0, <<>>, <<>>)
Array(kids) == MkObj("Array", "Array", <<>>, kids, 0, <<>>, <<>>)
DateObj(ms) == MkObj("Date", "Date", <<>>, <<>>, ms, <<>>, <<>>)
MapObj(kids) == MkObj("Map", "Map", <<>>, kids, 0, <<>>, <<>>)
SetObj(kids) == MkObj("Set", "Set", <<>>, kids, 0, <<>>, <<>>)
RegExpObj(source, flags) == MkObj("RegExp", "RegExp", <<>>, <<>>, 0, source, flags)
Instance(c, kids) == MkObj("Class", c, SubSeq(KeyNames, 1, Len(kids)), kids, 0, <<>>, <<>>)
\* Object.create(null) with fields: an object that has no constructor
NoProtoObj(kids) == MkObj("NoProto", "", SubSeq(KeyNames, 1, Len(kids)), kids, 0, <<>>, <<>>)

\* ---------------------------------------------------------------- registry
NoName == "undefined"
Entry(name, ctor, ser, des) ==
  [name |-> name, ctor |-> ctor, serializer |-> ser, deserializer |-> des]

\* heap, root, constructors, options: the program's values and the arguments of
\* serialist(constructors, options); counter: the serializer's closure
\* variable; op, ok, wire, out: the last call, whether it returned, the node
\* tree it returned or was given, and the value graph deserialize returned;
\* first: the node tree the first serialize call of this serializer returned.
\* wire.origin and wire.table, out.from and out.table are ghosts: what each
\* node and object was made from, and the visited-table and instance-table
\* the call ended with.  run: the call in progress when a traversal is
\* followed one doSerialize / doDeserialize call at a time
VARIABLES heap, root, constructors, options, counter, op, ok, wire, out, first, run

vars == <<heap, root, constructors, options, counter, op, ok, wire, out, first, run>>

\* ---------------------------------------------------------------- encoder
\* a full node of the intermediate form
MkNode(type, class, keys, date, pattern) ==
  [type |-> type, class |-> class, id |-> NoId, keys |-> keys, kids |-> <<>>,
   date |-> date, pattern |-> pattern]

\* Date.prototype.toString prints the time to the second
DateToString(ms) == ms \div 1000
\* RegExp.prototype.toString
RegExpToString(o) == <<"/">> \o o.source \o <<"/">> \o o.flags
\* String.prototype.slice(1, -1)
Slice1(s) == IF Len(s) <= 2 THEN <<>> ELSE SubSeq(s, 2, Len(s) - 1)

isPrimitiveType(v) == v.t \in {"prim", "string", "undefined"}
isSymbol(v) == v.t = "symbol"
isFunction(v) == v.t = "function"
isBuiltInType(v) == v.t = "obj" /\ heap[v.v].kind \in {"Date", "Map", "Set", "RegExp"}
isArrayValue(v) == v.t = "obj" /\ heap[v.v].kind = "Array"
isObjectLiteral(v) ==
  v.t = "obj" /\ heap[v.v].kind # "NoProto" /\ CtorName(heap[v.v].ctor) = "Object"
isInstance(v) == ~isObjectLiteral(v) /\ v.t = "obj"

\* the traversal state of one top-level call; origin is a ghost: the heap
\* address each full node was made from
SerState(c) == [nodes |-> <<>>, origin |-> <<>>, table |-> <<>>, counter |-> c, err |-> ""]

Fail(st, msg) == [st |-> [st EXCEPT !.err = msg], out |-> Undefined]

nextIndex(st) == [st EXCEPT !.counter = st.counter + 1]

\* a lookup that hands out an id without storing it on the node it refers to
findAlreadySerialized_IdNotStored(a, st) ==
  LET hits == {i \in 1..Len(st.table) : st.table[i].source = a} IN
  IF hits = {} THEN [found |-> FALSE, st |-> st, out |-> Undefined]
  ELSE [found |-> TRUE, st |-> nextIndex(st), out |-> RefV(SomeId(st.counter))]

\* a lookup that compares the entered values by structure
findAlreadySerialized_Structural(a, st) ==
  LET hits == {i \in 1..Len(st.table) : heap[st.table[i].source] = heap[a]} IN
  IF hits = {} THEN [found |-> FALSE, st |-> st, out |-> Undefined]
  ELSE LET n == st.table[Min(hits)].result IN
       IF st.nodes[n].id = NoId
       THEN [found |-> TRUE,
             st |-> [nextIndex(st) EXCEPT !.nodes[n].id = SomeId(st.counter)],
             out |-> RefV(SomeId(st.counter))]
       ELSE [found |-> TRUE, st |-> st, out |-> RefV(st.nodes[n].id)]

findAlreadySerialized(a, st) ==
  LET hits == {i \in 1..Len(st.table) : st.table[i].source = a} IN
  IF hits = {} THEN [found |-> FALSE, st |-> st, out |-> Undefined]
  ELSE LET n == st.table[Min(hits)].result IN
       IF st.nodes[n].id = NoId
       THEN [found |-> TRUE,
             st |-> [nextIndex(st) EXCEPT !.nodes[n].id = SomeId(st.counter)],
             out |-> RefV(SomeId(st.counter))]
       ELSE [found |-> TRUE, st |-> st, out |-> RefV(st.nodes[n].id)]

\* `const result = {...}`: a new full node
NewNode(st, a, nd) ==
  [st EXCEPT !.nodes = Append(st.nodes, nd), !.origin = Append(st.origin, a)]
\* an encoder that gives every node it enters into the table an id
PushSerialized_WithId(st, a, n) ==
  [nextIndex(st) EXCEPT !.nodes[n].id = SomeId(st.counter),
                        !.table = Append(st.table, [source |-> a, result |-> n])]
\* an encoder that enters nothing into the visited-table
PushSerialized_Skip(st, a, n) == st
\* `alreadySerialized.push({ source, result })`
PushSerialized(st, a, n) ==
  [st EXCEPT !.table = Append(st.table, [source |-> a, result |-> n])]
SetKids(st, n, kids) ==
  IF st.err # "" THEN st ELSE [st EXCEPT !.nodes[n].kids = kids]

\* string interpolation of a field by a hook that builds a string
Interpolate(v) == IF v.t \in {"prim", "string"} THEN v ELSE Str(0)

\* Symbol("x").toString().slice(7, -1) and Function.prototype.name: symbols
\* and functions are numbered, s and s + 2 carry the same description
SymDesc(s) == s % 2
FunName(f) == f % 2

\* an encoder that writes the name where the option hook is supplied
HookNode_NameOnly(st, class, x) ==
  [st |-> st, out |-> IF class = "Symbol" THEN SymN(SymDesc(x)) ELSE FunN(FunName(x))]

\* options.serializeSymbol / serializeFunction return an ICustomSerializedObject
\* that names the value
HookNode(st, class, x) ==
  LET n == Len(st.nodes) + 1
      nd == [MkNode("custom", class, <<>>, 0, <<>>) EXCEPT !.kids = <<Prim(x)>>]
  IN [st |-> NewNode(st, 0, nd), out |-> NodeV(n)]

RECURSIVE doSerialize(_, _)
RECURSIVE serializeEach(_, _, _, _)

\* the loops `for (const key of keys) ... doSerialize(...)`
serializeEach(kids, i, st, acc) ==
  IF st.err # "" \/ i > Len(kids) THEN [st |-> st, outs |-> acc]
  ELSE LET r == doSerialize(kids[i], st) IN
       serializeEach(kids, i + 1, r.st, Append(acc, r.out))

\* push the shell, then serialize the children into it
Container(a, st, nd) ==
  LET n == Len(st.nodes) + 1
      st1 == PushSerialized(NewNode(st, a, nd), a, n)
      r == serializeEach(heap[a].kids, 1, st1, <<>>)
  IN [st |-> SetKids(r.st, n, r.outs), out |-> NodeV(n)]

serializeObjectLiteral(a, st) ==
  LET f == findAlreadySerialized(a, st) IN
  IF f.found THEN [st |-> f.st, out |-> f.out]
  ELSE Container(a, st, MkNode("object", "", heap[a].keys, 0, <<>>))

serializeArray(a, st) ==
  LET f == findAlreadySerialized(a, st) IN
  IF f.found THEN [st |-> f.st, out |-> f.out]
  ELSE Container(a, st, MkNode("array", "", <<>>, 0, <<>>))

\* `constructors.find(c => source instanceof c.ctor)`
FindCtorOf(a) ==
  LET hits == {i \in 1..Len(constructors) :
                 InstanceOf(heap[a].ctor, constructors[i].ctor)} IN
  IF hits = {} THEN <<>> ELSE <<constructors[Min(hits)]>>

ClassOf(e, a) == IF e.name # NoName THEN e.name ELSE CtorName(heap[a].ctor)

\* the hook `serializer(source, alreadySerialized, serialize)`
CustomSerializer(e, a, st, n) ==
  IF e.serializer = "flat"
  THEN [st |-> st, outs |-> [i \in 1..Len(heap[a].kids) |-> Interpolate(heap[a].kids[i])]]
  ELSE serializeEach(heap[a].kids, 1, st, <<>>)

\* an encoder that falls back to the record encoding for an unregistered type
serializeInstance_Fallback(a, st) ==
  LET f == findAlreadySerialized(a, st) IN
  IF f.found THEN [st |-> f.st, out |-> f.out]
  ELSE LET customCtor == FindCtorOf(a) IN
       IF customCtor # <<>> /\ customCtor[1].serializer # "none"
       THEN LET n == Len(st.nodes) + 1
                nd == MkNode("custom", ClassOf(customCtor[1], a), heap[a].keys, 0, <<>>)
                st1 == PushSerialized(NewNode(st, a, nd), a, n)
                r == CustomSerializer(customCtor[1], a, st1, n)
            IN [st |-> SetKids(r.st, n, r.outs), out |-> NodeV(n)]
       ELSE Container(a, st, MkNode(IF customCtor # <<>> THEN "instance" ELSE "object",
                                    IF customCtor # <<>> THEN ClassOf(customCtor[1], a) ELSE "",
                                    heap[a].keys, 0, <<>>))

\* an encoder that copies the fields of every registered instance
serializeInstance_FieldCopy(a, st) ==
  LET f == findAlreadySerialized(a, st) IN
  IF f.found THEN [st |-> f.st, out |-> f.out]
  ELSE LET customCtor == FindCtorOf(a) IN
       IF customCtor # <<>>
       THEN Container(a, st, MkNode("instance", ClassOf(customCtor[1], a), heap[a].keys, 0, <<>>))
       ELSE Fail(st, "Cannot serialize object with constructor")

serializeInstance(a, st) ==
  LET f == findAlreadySerialized(a, st) IN
  IF f.found THEN [st |-> f.st, out |-> f.out]
  ELSE LET customCtor == FindCtorOf(a) IN
       IF customCtor # <<>>
       THEN LET e == customCtor[1] IN
            IF e.serializer # "none"
            THEN LET n == Len(st.nodes) + 1
                     nd == MkNode("custom", ClassOf(e, a), heap[a].keys, 0, <<>>)
                     st1 == PushSerialized(NewNode(st, a, nd), a, n)
                     r == CustomSerializer(e, a, st1, n)
                 IN [st |-> SetKids(r.st, n, r.outs), out |-> NodeV(n)]
            ELSE Container(a, st, MkNode("instance", ClassOf(e, a), heap[a].keys, 0, <<>>))
       ELSE Fail(st, "Cannot serialize object with constructor")

serializeBuiltInType(a, st) ==
  LET f == findAlreadySerialized(a, st)
      o == heap[a]
      n == Len(st.nodes) + 1
  IN
  IF f.found THEN [st |-> f.st, out |-> f.out]
  ELSE IF o.kind = "Date"
       THEN [st |-> NewNode(st, a, MkNode("builtin", "Date", <<>>, DateToString(o.ms), <<>>)),
             out |-> NodeV(n)]
       ELSE IF o.kind = "Map"
       THEN Container(a, st, MkNode("builtin", "Map", <<>>, 0, <<>>))
       ELSE IF o.kind = "Set"
       THEN Container(a, st, MkNode("builtin", "Set", <<>>, 0, <<>>))
       ELSE IF o.kind = "RegExp"
       THEN [st |-> PushSerialized(
                      NewNode(st, a, MkNode("builtin", "RegExp", <<>>, 0,
                                            Slice1(RegExpToString(o)))), a, n),
             out |-> NodeV(n)]
       ELSE Fail(st, "Unknown builtin type")

doSerialize(v, st) ==
  IF isPrimitiveType(v) THEN [st |-> st, out |-> v]
  ELSE IF isSymbol(v)
       THEN IF options.serializeSymbol THEN HookNode(st, "Symbol", v.v)
            ELSE [st |-> st, out |-> SymN(SymDesc(v.v))]
  ELSE IF isFunction(v)
       THEN IF options.serializeFunction THEN HookNode(st, "Function", v.v)
            ELSE [st |-> st, out |-> FunN(FunName(v.v))]
  ELSE IF isBuiltInType(v) THEN serializeBuiltInType(v.v, st)
  ELSE IF isArrayValue(v) THEN serializeArray(v.v, st)
  ELSE IF isObjectLiteral(v) THEN serializeObjectLiteral(v.v, st)
  ELSE IF isInstance(v) THEN serializeInstance(v.v, st)
  ELSE Fail(st, "Cannot serialize")

\* the closure `(source) => doSerialize(source, [])` of one serializer object
serialize(v) == doSerialize(v, SerState(counter))

\* ---------------------------------------------------------------- decoder
\* the traversal state of one top-level deserialize call: the objects built
\* so far (the output heap), the instance-table and the symbols created;
\* from is a ghost: the node each object was built for
DesState == [objs |-> <<>>, from |-> <<>>, table |-> <<>>, syms |-> 0, err |-> ""]

DFail(ds, msg) == [ds |-> [ds EXCEPT !.err = msg], out |-> Undefined]

\* Date.parse of a string printed by toString
DateParse(s) == s * 1000
\* `new RegExp(pattern)`: no flags, and source escapes each "/"
RECURSIVE EscapeSlash(_)
EscapeSlash(p) ==
  IF p = <<>> THEN <<>>
  ELSE (IF Head(p) = "/" THEN <<"\\", "/">> ELSE <<Head(p)>>) \o EscapeSlash(Tail(p))
NewRegExp(p) == RegExpObj(EscapeSlash(p), <<>>)

\* `new X()`, `{}`, `[]`: a new object of the output heap
NewObj(ds, n, o) ==
  [ds EXCEPT !.objs = Append(ds.objs, o), !.from = Append(ds.from, n)]
\* a decoder that enters nothing into the instance-table
PushDeserialized_Skip(ds, n, a) == ds
\* `alreadyDeserialized.push({ source, result })`
PushDeserialized(ds, n, a) ==
  [ds EXCEPT !.table = Append(ds.table, [source |-> n, result |-> a])]

\* Set.prototype.add over the decoded entries, in order
RECURSIVE SetAdd(_, _)
SetAdd(acc, vs) ==
  IF vs = <<>> THEN acc
  ELSE SetAdd(IF Head(vs) \in Range(acc) THEN acc ELSE Append(acc, Head(vs)), Tail(vs))
\* Map.prototype.set over the decoded [key, value] pairs, in order
RECURSIVE MapSet(_, _)
MapSet(acc, vs) ==
  IF Len(vs) < 2 THEN acc
  ELSE LET hits == {i \in 1..(Len(acc) \div 2) : acc[2 * i - 1] = vs[1]} IN
       MapSet(IF hits = {} THEN acc \o SubSeq(vs, 1, 2)
              ELSE [acc EXCEPT ![2 * Min(hits)] = vs[2]],
              SubSeq(vs, 3, Len(vs)))

Fill(ds, a, kids) ==
  IF ds.err # "" THEN ds
  ELSE [ds EXCEPT !.objs[a].kids =
          IF ds.objs[a].kind = "Set" THEN SetAdd(<<>>, kids)
          ELSE IF ds.objs[a].kind = "Map" THEN MapSet(<<>>, kids)
          ELSE kids]

RECURSIVE doDeserialize(_, _, _)
RECURSIVE deserializeEach(_, _, _, _, _)

deserializeEach(N, kids, i, ds, acc) ==
  IF ds.err # "" \/ i > Len(kids) THEN [ds |-> ds, outs |-> acc]
  ELSE LET r == doDeserialize(N, kids[i], ds) IN
       deserializeEach(N, kids, i + 1, r.ds, Append(acc, r.out))

\* create the shell, register it, then decode the children into it
Rebuild(N, n, ds, o) ==
  LET a == Len(ds.objs) + 1
      ds1 == PushDeserialized(NewObj(ds, n, o), n, a)
      r == deserializeEach(N, N[n].kids, 1, ds1, <<>>)
  IN [ds |-> Fill(r.ds, a, r.outs), out |-> ObjV(a)]

deserializeBuiltInType(N, n, ds) ==
  LET a == Len(ds.objs) + 1 IN
  IF N[n].class = "Date"
  THEN [ds |-> NewObj(ds, n, DateObj(DateParse(N[n].date))), out |-> ObjV(a)]
  ELSE IF N[n].class = "Map" THEN Rebuild(N, n, ds, MapObj(<<>>))
  ELSE IF N[n].class = "Set" THEN Rebuild(N, n, ds, SetObj(<<>>))
  ELSE IF N[n].class = "RegExp"
  THEN [ds |-> PushDeserialized(NewObj(ds, n, NewRegExp(N[n].pattern)), n, a), out |-> ObjV(a)]
  ELSE DFail(ds, "Unknown special type")

deserializeArray(N, n, ds) == Rebuild(N, n, ds, Array(<<>>))

deserializeObjectLiteral(N, n, ds) ==
  Rebuild(N, n, ds, [Record(<<>>) EXCEPT !.keys = N[n].keys])

\* `alreadyDeserialized.find(i => i.source.id === source.id)`
deserializeReference(N, id, ds) ==
  LET hits == {i \in 1..Len(ds.table) : N[ds.table[i].source].id = id} IN
  IF hits # {} THEN [ds |-> ds, out |-> ObjV(ds.table[Min(hits)].result)]
  ELSE DFail(ds, "Cannot find reference")

\* `constructors.find(c => source.class === c.name || source.class === c.ctor.name)`
FindCtorNamed(class) ==
  LET hits == {i \in 1..Len(constructors) :
                 class = constructors[i].name \/ class = CtorName(constructors[i].ctor)} IN
  IF hits = {} THEN <<>> ELSE <<constructors[Min(hits)]>>

\* a decoder that rebuilds an instance as a plain record
deserializeInstance_AsRecord(N, n, ds) ==
  LET customCtor == FindCtorNamed(N[n].class) IN
  IF customCtor # <<>>
  THEN Rebuild(N, n, ds, [Record(<<>>) EXCEPT !.keys = N[n].keys])
  ELSE [ds |-> ds, out |-> Undefined]

deserializeInstance(N, n, ds) ==
  LET customCtor == FindCtorNamed(N[n].class) IN
  IF customCtor # <<>>
  THEN Rebuild(N, n, ds, [Instance(customCtor[1].ctor, <<>>) EXCEPT !.keys = N[n].keys])
  ELSE [ds |-> ds, out |-> Undefined]

\* the hook `deserializer(val, source, alreadyDeserialized, deserialize)`
CustomDeserializer(e, N, n, ds) ==
  LET a == Len(ds.objs) + 1
      o == [Instance(e.ctor, <<>>) EXCEPT !.keys = N[n].keys]
  IN IF e.deserializer = "flat"
     THEN [ds |-> NewObj(ds, n, [o EXCEPT !.kids =
                     [i \in 1..Len(N[n].kids) |->
                        IF N[n].kids[i].t \in {"prim", "string"}
                        THEN N[n].kids[i] ELSE Undefined]]),
           out |-> ObjV(a)]
     ELSE Rebuild(N, n, ds, o)

\* a decoder that builds a default instance when the entry has no deserializer
deserializeCustomSerializedObject_Default(N, n, ds) ==
  LET customCtor == FindCtorNamed(N[n].class) IN
  IF customCtor # <<>> /\ customCtor[1].deserializer # "none"
  THEN CustomDeserializer(customCtor[1], N, n, ds)
  ELSE IF customCtor # <<>>
  THEN Rebuild(N, n, ds, [Instance(customCtor[1].ctor, <<>>) EXCEPT !.keys = N[n].keys])
  ELSE DFail(ds, "Missing deserializer")

deserializeCustomSerializedObject(N, n, ds) ==
  LET customCtor == FindCtorNamed(N[n].class) IN
  IF customCtor # <<>> /\ customCtor[1].deserializer # "none"
  THEN CustomDeserializer(customCtor[1], N, n, ds)
  ELSE DFail(ds, "Missing deserializer")

\* `Symbol(description)`: a symbol no other value is identical to
FreshSymbol(ds, d) ==
  [ds |-> [ds EXCEPT !.syms = ds.syms + 1], out |-> SymV(4 + 2 * ds.syms + d)]

doDeserialize(N, c, ds) ==
  IF c.t \in {"prim", "string", "undefined"} THEN [ds |-> ds, out |-> c]
  ELSE IF c.t = "symbolnode"
       THEN IF options.deserializeSymbol THEN [ds |-> ds, out |-> SymV(c.v)]
            ELSE FreshSymbol(ds, c.v)
  ELSE IF c.t = "functionnode"
       THEN IF options.deserializeFunction THEN [ds |-> ds, out |-> FunV(c.v)]
            ELSE [ds |-> ds, out |-> Str(c.v)]
  ELSE IF c.t = "node" /\ N[c.v].type = "builtin" THEN deserializeBuiltInType(N, c.v, ds)
  ELSE IF c.t = "node" /\ N[c.v].type = "array" THEN deserializeArray(N, c.v, ds)
  ELSE IF c.t = "node" /\ N[c.v].type = "object" THEN deserializeObjectLiteral(N, c.v, ds)
  ELSE IF c.t = "node" /\ N[c.v].type = "custom"
       THEN deserializeCustomSerializedObject(N, c.v, ds)
  ELSE IF c.t = "node" /\ N[c.v].type = "instance" THEN deserializeInstance(N, c.v, ds)
  ELSE IF c.t = "reference" THEN deserializeReference(N, c.v, ds)
  ELSE DFail(ds, "Unable to serialize object")

\* the closure `(source) => doDeserialize(source, [])`
deserialize(w) == doDeserialize(w.nodes, w.root, DesState)

\* ---------------------------------------------------------------- inputs
\* the registry of the README and the tests: a default entry, an entry with
\* an alias name, a hook pair that builds a string, a hook pair that recurses,
\* and a serializer hook without a deserializer hook; Ghost is not registered
Registry ==
  << Entry(NoName, "Human", "none", "none"),
     Entry("CLS_HUMAN2", "Human2", "none", "none"),
     Entry("CLS_POINT", "Point", "flat", "flat"),
     Entry("CLS_META", "Meta", "nested", "nested"),
     Entry(NoName, "Orphan", "flat", "none") >>
RegistryWithGhost == Append(Registry, Entry(NoName, "Ghost", "none", "none"))
\* two constructors named Human, each registered with an alias name of its
\* own (README: CLS_HUMAN1, CLS_HUMAN2), and the same with "Human" as the
\* alias name of the second (as the tests register { ctor: Human, name: "Human" })
RegistryAliased ==
  << Entry("CLS_HUMAN1", "Human", "none", "none"),
     Entry("CLS_HUMAN2", "Human2", "none", "none") >>
RegistryAliasedHuman ==
  << Entry("CLS_HUMAN1", "Human", "none", "none"),
     Entry("Human", "Human2", "none", "none") >>

NoOptions ==
  [serializeSymbol |-> FALSE, serializeFunction |-> FALSE,
   deserializeSymbol |-> FALSE, deserializeFunction |-> FALSE]
DecodeHooks == [NoOptions EXCEPT !.deserializeSymbol = TRUE, !.deserializeFunction = TRUE]
AllHooks ==
  [serializeSymbol |-> TRUE, serializeFunction |-> TRUE,
   deserializeSymbol |-> TRUE, deserializeFunction |-> TRUE]

NoWire == [nodes |-> <<>>, origin |-> <<>>, table |-> <<>>, root |-> Undefined]
NoOut == [objs |-> <<>>, from |-> <<>>, table |-> <<>>, root |-> Undefined]

SeqsUpTo(S, k) == UNION {[1..j -> S] : j \in 0..k}
Distinct(s) == \A i, j \in 1..Len(s) : i # j => s[i] # s[j]

\* the values a field of a graph of n objects holds
Vals(n) == {Prim(10)} \cup {ObjV(a) : a \in 1..n}

\* the kinds of object a graph is made of, and an object of a kind with the
\* fields (items, entries) k
Containers == {"Record", "Array", "Set", "Map"} \cup Classes
BuiltIns == {"Date", "DateMs", "RegExp", "RegExpG"}
Make(kind, k) ==
  CASE kind = "Record" -> Record(k)
    [] kind = "Array" -> Array(k)
    [] kind = "Set" -> SetObj(k)
    [] kind = "Map" -> MapObj(k)
    [] kind = "Date" -> DateObj(1000)
    [] kind = "DateMs" -> DateObj(1500)
    [] kind = "RegExp" -> RegExpObj(<<"a", "b">>, <<>>)
    [] kind = "RegExpG" -> RegExpObj(<<"a", "b">>, <<"g">>)
    [] kind = "NoProto" -> NoProtoObj(k)
    [] OTHER -> Instance(kind, k)
Valid(kind, k) ==
  /\ kind \in BuiltIns => k = <<>>
  /\ kind = "Set" => Distinct(k)
  /\ kind = "Map" => Len(k) % 2 = 0 /\ Distinct([i \in 1..(Len(k) \div 2) |-> k[2 * i - 1]])
ObjectsOf(K, n, f) ==
  {Make(p[1], p[2]) : p \in {q \in K \X SeqsUpTo(Vals(n), f) : Valid(q[1], q[2])}}

\* the heaps of objects i..n that have f fields at most between them
RECURSIVE HeapsFrom(_, _, _, _)
HeapsFrom(K, n, i, f) ==
  IF i > n THEN {<<>>}
  ELSE UNION {{<<o>> \o rest : rest \in HeapsFrom(K, n, i + 1, f - Len(o.kids))} :
                o \in ObjectsOf(K, n, f)}

\* the objects of h a walk from the addresses in todo reaches
RECURSIVE Reach(_, _, _)
Reach(h, todo, seen) ==
  IF todo = {} THEN seen
  ELSE LET a == CHOOSE x \in todo : TRUE
           next == {h[a].kids[i].v : i \in {j \in 1..Len(h[a].kids) : h[a].kids[j].t = "obj"}}
       IN Reach(h, (todo \cup next) \ (seen \cup {a}), seen \cup {a})

\* value graphs of objects of the kinds K with f fields at most: every object
\* is part of the value at address 1
GraphsOf(K, f) ==
  UNION {{h \in HeapsFrom(K, n, 1, f) : Reach(h, {1}, {}) = 1..n} :
           n \in 1..MaxObjs}

\* records and arrays of primitives, symbols and functions
Leaves == {Prim(10), Str(1), Undefined, SymV(0), SymV(2), FunV(1)}
Flat == {<<Make(kind, k)>> : kind \in {"Record", "Array"}, k \in SeqsUpTo(Leaves, MaxFields - 1)}

\* node trees handed to deserialize that no serialize call produced
GivenKids == {Prim(10), RefV(NoId), RefV(SomeId(0)), RefV(SomeId(1)), NodeV(2)}
GivenTypes ==
  {<<"array", "">>, <<"object", "">>, <<"builtin", "Set">>,
   <<"instance", "Human">>, <<"instance", "Nope">>,
   <<"custom", "CLS_META">>, <<"custom", "CLS_POINT">>, <<"custom", "Orphan">>,
   <<"custom", "Nope">>}
GivenNode(ty, id, kids) ==
  [MkNode(ty[1], ty[2], SubSeq(KeyNames, 1, Len(kids)), 0, <<>>)
     EXCEPT !.id = id, !.kids = kids]
Given ==
  {[nodes |-> <<GivenNode(t1, i1, k1), GivenNode(t2, i2, k2)>>, origin |-> <<0, 0>>,
    table |-> <<>>, root |-> NodeV(1)] :
     t1 \in GivenTypes, i1 \in {NoId, SomeId(0)},
     k1 \in {k \in SeqsUpTo(GivenKids, MaxFields - 1) :
               Cardinality({i \in 1..Len(k) : k[i] = NodeV(2)}) = 1},
     t2 \in {<<"object", "">>, <<"instance", "Nope">>, <<"custom", "Orphan">>},
     i2 \in {NoId, SomeId(1)},
     k2 \in {<<>>, <<RefV(SomeId(0))>>}}
  \cup
  {[nodes |-> <<GivenNode(t1, i1, k1)>>, origin |-> <<0>>, table |-> <<>>,
    root |-> NodeV(1)] :
     t1 \in GivenTypes, i1 \in {NoId, SomeId(0)},
     k1 \in SeqsUpTo(GivenKids \ {NodeV(2)}, MaxFields - 1)}

\* ---------------------------------------------------------------- behaviour
\* a call in progress: the traversal state, and the stack of the loops over
\* children that have been entered and not left, each with the node (object)
\* it fills, the children it walks and the results so far.  entered and
\* decoded are ghosts: the objects whose children the last serialize call
\* entered, and the full nodes the last deserialize call was applied to
Frame(n, kids) == [n |-> n, kids |-> kids, outs |-> <<>>]
Idle ==
  [phase |-> "idle", st |-> SerState(0), ds |-> DesState, stack |-> <<>>,
   entered |-> <<>>, decoded |-> <<>>]

InitVars(h, r, c, o, w, g) ==
  /\ heap = h /\ root = r /\ constructors = c /\ options = o
  /\ counter = 0 /\ op = g /\ ok = TRUE
  /\ wire = w /\ out = NoOut /\ first = NoWire
  /\ run = Idle

InitGraph(K, f, C) ==
  \E h \in GraphsOf(K, f), c \in C : InitVars(h, ObjV(1), c, NoOptions, NoWire, "none")
InitGiven ==
  \E w \in Given : InitVars(<<>>, Undefined, Registry, NoOptions, w, "given")

Init ==
  \/ InitGraph(Containers \cup BuiltIns, MaxFields, {<<>>, Registry, RegistryWithGhost})
  \/ \E h \in Flat, o \in {NoOptions, DecodeHooks, AllHooks} :
       InitVars(h, ObjV(1), Registry, o, NoWire, "none")
  \/ \E r \in Leaves, o \in {NoOptions, AllHooks} :
       InitVars(<<>>, r, Registry, o, NoWire, "none")
  \/ InitGiven

\* serializer.serialize(root)
Serialize ==
  /\ op # "given"
  /\ counter < MaxCounter
  /\ LET r == serialize(root) IN
       /\ counter' = r.st.counter
       /\ ok' = (r.st.err = "")
       /\ wire' = IF r.st.err = ""
                  THEN [nodes |-> r.st.nodes, origin |-> r.st.origin,
                        table |-> r.st.table, root |-> r.out]
                  ELSE NoWire
       /\ first' = IF op = "none" THEN wire' ELSE first
  /\ op' = "serialize"
  /\ out' = NoOut
  /\ UNCHANGED <<heap, root, constructors, options, run>>

\* serializer.deserialize(wire): of the node serialize returned, or of a
\* node tree from elsewhere
Deserialize ==
  /\ op \in {"serialize", "given"}
  /\ ok
  /\ LET r == deserialize(wire) IN
       /\ ok' = (r.ds.err = "")
       /\ out' = IF r.ds.err = "" THEN [objs |-> r.ds.objs, from |-> r.ds.from,
                      table |-> r.ds.table, root |-> r.out]
                ELSE NoOut
  /\ op' = IF op = "given" THEN "decoded" ELSE "deserialize"
  /\ UNCHANGED <<heap, root, constructors, options, counter, wire, first, run>>

Next == Serialize \/ Deserialize

Spec == Init /\ [][Next]_vars

\* graphs of plain records and default-encoded instances
InitCycles == InitGraph({"Record", "Human"}, MaxFields, {Registry})
SpecCycles == InitCycles /\ [][Next]_vars

\* graphs of records and instances with a string-building hook or of an
\* unregistered type, with and without an entry for that type
InitInstances == InitGraph({"Record", "Point", "Ghost"}, MaxFields - 1, {Registry, RegistryWithGhost})
SpecInstances == InitInstances /\ [][Next]_vars

\* node trees from elsewhere, and graphs with instances that have a
\* serializer hook and no deserializer hook
InitDecode == InitGiven \/ InitGraph({"Array", "Orphan"}, MaxFields - 1, {Registry})
SpecDecode == InitDecode /\ [][Next]_vars

\* graphs of records and instances of the types registered with hooks
InitCustom == InitGraph({"Record", "Point", "Meta", "Orphan"}, MaxFields - 1, {Registry})
SpecCustom == InitCustom /\ [][Next]_vars

\* graphs of records and instances of two constructors of one name, each
\* registered with its own alias name
InitAliases ==
  InitGraph({"Record", "Human", "Human2"}, MaxFields - 1,
            {RegistryAliased, RegistryAliasedHuman})
SpecAliases == InitAliases /\ [][Next]_vars

\* node trees from elsewhere, and graphs of records and instances of the
\* types registered without hooks
InitDefault == InitGiven \/ InitGraph({"Record", "Human", "Human2"}, MaxFields - 1, {Registry})
SpecDefault == InitDefault /\ [][Next]_vars

\* symbols and functions, alone and as fields of records and items of
\* arrays, with and without option hooks
InitHooks ==
  \/ \E h \in Flat, o \in {NoOptions, DecodeHooks, AllHooks} :
       InitVars(h, ObjV(1), Registry, o, NoWire, "none")
  \/ \E r \in Leaves, o \in {NoOptions, DecodeHooks, AllHooks} :
       InitVars(<<>>, r, Registry, o, NoWire, "none")
SpecHooks == InitHooks /\ [][Next]_vars

\* values of every kind the classifier tells apart, objects without a
\* constructor among them
InitKinds ==
  \/ InitGraph(Containers \cup BuiltIns \cup {"NoProto"}, MaxFields - 1, {Registry})
  \/ \E r \in Leaves : InitVars(<<>>, r, Registry, NoOptions, NoWire, "none")
SpecKinds == InitKinds /\ [][Next]_vars

\* graphs with shared and cyclic arrays, Maps, Dates and instances whose
\* hooks recurse
InitShared == InitGraph({"Array", "Map", "Date", "Meta"}, MaxFields - 1, {Registry})
SpecShared == InitShared /\ [][Next]_vars

\* graphs of objects of each kind the encoder enters into the visited-table
InitCompound ==
  \/ InitGraph({"Array", "Set", "RegExp", "Point"}, MaxFields - 1, {Registry})
  \/ InitGraph({"Record", "Human", "Meta"}, MaxFields - 1, {Registry})
SpecCompound == InitCompound /\ [][Next]_vars

\* ---------------------------------------------------------------- traversal
\* the same calls, followed one doSerialize / doDeserialize call at a time.
\* A call that loops over children opens a loop; every other call returns at
\* once (a hook and the calls it makes count as one)
Top == run.stack[Len(run.stack)]
\* the argument of the next call of the loop on top of the stack
Arg == Top.kids[Len(Top.outs) + 1]
LoopDone == Len(Top.outs) = Len(Top.kids)
\* `return result`: the loop on top ends and its caller's loop goes on
Returned(v) ==
  LET k == Len(run.stack) - 1 IN
  [SubSeq(run.stack, 1, k) EXCEPT ![k].outs = Append(@, v)]

\* does doSerialize(v, st) reach a loop over the children of v
Descends(v, st) ==
  /\ v.t = "obj"
  /\ ~findAlreadySerialized(v.v, st).found
  /\ \/ heap[v.v].kind \in {"Map", "Set"}
     \/ isArrayValue(v)
     \/ isObjectLiteral(v)
     \/ /\ isInstance(v) /\ ~isBuiltInType(v)
        /\ FindCtorOf(v.v) # <<>>
        /\ FindCtorOf(v.v)[1].serializer = "none"
\* `const result = {...}` of the call that descends into object a
Shell(a) ==
  IF heap[a].kind \in {"Map", "Set"} THEN MkNode("builtin", heap[a].kind, <<>>, 0, <<>>)
  ELSE IF isArrayValue(ObjV(a)) THEN MkNode("array", "", <<>>, 0, <<>>)
  ELSE IF isObjectLiteral(ObjV(a)) THEN MkNode("object", "", heap[a].keys, 0, <<>>)
  ELSE MkNode("instance", ClassOf(FindCtorOf(a)[1], a), heap[a].keys, 0, <<>>)

\* serializer.serialize(root) is called
SerializeCall ==
  /\ run.phase = "idle"
  /\ op # "given"
  /\ counter < MaxCounter
  /\ run' = [Idle EXCEPT !.phase = "serialize", !.st = SerState(counter),
                         !.stack = <<Frame(0, <<root>>)>>]
  /\ UNCHANGED <<heap, root, constructors, options, counter, op, ok, wire, out, first>>

\* one call doSerialize(source, alreadySerialized), up to its loop
SerializeVisit ==
  /\ run.phase = "serialize"
  /\ run.st.err = ""
  /\ ~LoopDone
  /\ IF Descends(Arg, run.st)
     THEN LET a == Arg.v
              n == Len(run.st.nodes) + 1
          IN run' = [run EXCEPT !.st = PushSerialized(NewNode(run.st, a, Shell(a)), a, n),
                                !.stack = Append(@, Frame(n, heap[a].kids)),
                                !.entered = Append(@, a)]
     ELSE LET r == doSerialize(Arg, run.st)
          IN run' = [run EXCEPT !.st = r.st,
                                !.stack[Len(run.stack)].outs = Append(@, r.out)]
  /\ UNCHANGED <<heap, root, constructors, options, counter, op, ok, wire, out, first>>

\* the loop over the children ends: `return result`
SerializeLeave ==
  /\ run.phase = "serialize"
  /\ run.st.err = ""
  /\ Len(run.stack) > 1
  /\ LoopDone
  /\ run' = [run EXCEPT !.st = SetKids(run.st, Top.n, Top.outs),
                        !.stack = Returned(NodeV(Top.n))]
  /\ UNCHANGED <<heap, root, constructors, options, counter, op, ok, wire, out, first>>

\* the top-level call returns or throws
SerializeReturn ==
  /\ run.phase = "serialize"
  /\ run.st.err # "" \/ (Len(run.stack) = 1 /\ LoopDone)
  /\ counter' = run.st.counter
  /\ ok' = (run.st.err = "")
  /\ wire' = IF run.st.err = ""
             THEN [nodes |-> run.st.nodes, origin |-> run.st.origin,
                   table |-> run.st.table, root |-> Top.outs[1]]
             ELSE NoWire
  /\ first' = IF op = "none" THEN wire' ELSE first
  /\ op' = "serialize"
  /\ out' = NoOut
  /\ run' = [Idle EXCEPT !.entered = run.entered]
  /\ UNCHANGED <<heap, root, constructors, options>>

\* does doDeserialize(c, alreadyDeserialized) reach a loop over the children
DescendsNode(N, c) ==
  /\ c.t = "node"
  /\ \/ N[c.v].type = "builtin" /\ N[c.v].class \in {"Map", "Set"}
     \/ N[c.v].type \in {"array", "object"}
     \/ N[c.v].type = "instance" /\ FindCtorNamed(N[c.v].class) # <<>>
\* `new Map()`, `[]`, `{}`, `new customCtor.ctor()` of the call that descends
ShellObj(N, n) ==
  IF N[n].type = "builtin" THEN (IF N[n].class = "Map" THEN MapObj(<<>>) ELSE SetObj(<<>>))
  ELSE IF N[n].type = "array" THEN Array(<<>>)
  ELSE IF N[n].type = "object" THEN [Record(<<>>) EXCEPT !.keys = N[n].keys]
  ELSE [Instance(FindCtorNamed(N[n].class)[1].ctor, <<>>) EXCEPT !.keys = N[n].keys]

\* serializer.deserialize(wire) is called
DeserializeCall ==
  /\ run.phase = "idle"
  /\ op \in {"serialize", "given"}
  /\ ok
  /\ run' = [Idle EXCEPT !.phase = "deserialize", !.stack = <<Frame(0, <<wire.root>>)>>,
                         !.entered = run.entered]
  /\ UNCHANGED <<heap, root, constructors, options, counter, op, ok, wire, out, first>>

\* one call doDeserialize(source, alreadyDeserialized), up to its loop
DeserializeVisit ==
  /\ run.phase = "deserialize"
  /\ run.ds.err = ""
  /\ ~LoopDone
  /\ LET seen == IF Arg.t = "node" THEN Append(run.decoded, Arg.v) ELSE run.decoded IN
     IF DescendsNode(wire.nodes, Arg)
     THEN LET n == Arg.v
              a == Len(run.ds.objs) + 1
          IN run' = [run EXCEPT
                       !.ds = PushDeserialized(NewObj(run.ds, n, ShellObj(wire.nodes, n)), n, a),
                       !.stack = Append(@, Frame(a, wire.nodes[n].kids)),
                       !.decoded = seen]
     ELSE LET r == doDeserialize(wire.nodes, Arg, run.ds)
          IN run' = [run EXCEPT !.ds = r.ds,
                                !.stack[Len(run.stack)].outs = Append(@, r.out),
                                !.decoded = seen]
  /\ UNCHANGED <<heap, root, constructors, options, counter, op, ok, wire, out, first>>

\* the loop over the children ends: `return result`
DeserializeLeave ==
  /\ run.phase = "deserialize"
  /\ run.ds.err = ""
  /\ Len(run.stack) > 1
  /\ LoopDone
  /\ run' = [run EXCEPT !.ds = Fill(run.ds, Top.n, Top.outs),
                        !.stack = Returned(ObjV(Top.n))]
  /\ UNCHANGED <<heap, root, constructors, options, counter, op, ok, wire, out, first>>

\* the top-level call returns or throws
DeserializeReturn ==
  /\ run.phase = "deserialize"
  /\ run.ds.err # "" \/ (Len(run.stack) = 1 /\ LoopDone)
  /\ ok' = (run.ds.err = "")
  /\ out' = IF run.ds.err = ""
            THEN [objs |-> run.ds.objs, from |-> run.ds.from,
                  table |-> run.ds.table, root |-> Top.outs[1]]
            ELSE NoOut
  /\ op' = IF op = "given" THEN "decoded" ELSE "deserialize"
  /\ run' = [Idle EXCEPT !.entered = run.entered, !.decoded = run.decoded]
  /\ UNCHANGED <<heap, root, constructors, options, counter, wire, first>>

\* a call that has begun runs until it returns or throws
Proceed ==
  \/ SerializeVisit \/ SerializeLeave \/ SerializeReturn
  \/ DeserializeVisit \/ DeserializeLeave \/ DeserializeReturn
NextSteps == SerializeCall \/ DeserializeCall \/ Proceed

\* node trees from elsewhere that no deserializer hook is applied to
InitGivenPlain ==
  \E w \in {g \in Given : \A n \in 1..Len(g.nodes) :
                            g.nodes[n].class \notin {"CLS_META", "CLS_POINT"}} :
    InitVars(<<>>, Undefined, Registry, NoOptions, w, "given")
\* graphs, cyclic or not, of objects of every kind no hook is applied to
InitSteps ==
  \/ InitGraph({"Array", "Set", "Human"}, MaxFields - 1, {Registry})
  \/ InitGraph({"Record", "Map", "Student"}, MaxFields - 1, {Registry})
  \/ InitGraph({"Record", "Date", "Ghost"}, MaxFields - 1, {Registry})
  \/ InitGivenPlain
SpecSteps == InitSteps /\ [][NextSteps]_vars /\ WF_vars(Proceed)

\* ---------------------------------------------------------------- analysis
\* does serialize enter the children of object a (Date and RegExp have none,
\* a hook that builds a string passes none to the serialize callback)
Entered(a) ==
  /\ heap[a].kind \notin {"Date", "RegExp"}
  /\ heap[a].kind \in {"Class", "NoProto"} =>
       FindCtorOf(a) # <<>> /\ FindCtorOf(a)[1].serializer # "flat"
EnteredKids(a) == IF Entered(a) THEN heap[a].kids ELSE <<>>

\* the objects at the positions a traversal from the root reaches
RECURSIVE Traversed(_, _)
Traversed(todo, seen) ==
  IF todo = {} THEN seen
  ELSE LET a == CHOOSE x \in todo : TRUE
           ks == EnteredKids(a)
           next == {ks[i].v : i \in {j \in 1..Len(ks) : ks[j].t = "obj"}}
       IN Traversed((todo \cup next) \ (seen \cup {a}), seen \cup {a})
Visited == IF root.t = "obj" THEN Traversed({root.v}, {}) ELSE {}

\* the number of positions of the traversed graph that hold object a
Positions(a) ==
  (IF root = ObjV(a) THEN 1 ELSE 0)
  + Cardinality(UNION {{<<p, i>> : i \in {j \in DOMAIN EnteredKids(p) :
                                                 EnteredKids(p)[j] = ObjV(a)}} :
                         p \in Visited})

\* the full nodes of the returned tree made from object a, and the number of
\* ReferenceNodes of the tree with a given id
FullNodes(a) == {n \in 1..Len(wire.nodes) : wire.origin[n] = a}
References(id) ==
  (IF wire.root = RefV(id) THEN 1 ELSE 0)
  + Cardinality(UNION {{<<n, i>> : i \in {j \in DOMAIN wire.nodes[n].kids :
                                                 wire.nodes[n].kids[j] = RefV(id)}} :
                         n \in 1..Len(wire.nodes)})

Unregistered(a) ==
  /\ heap[a].kind = "Class"
  /\ FindCtorOf(a) = <<>>

\* the pairs (input object, output object) at corresponding positions of the
\* value given to serialize and the value deserialize returned
RECURSIVE Corresponding(_, _)
Corresponding(todo, seen) ==
  IF todo = {} THEN seen
  ELSE LET p == CHOOSE x \in todo : TRUE
           ka == heap[p[1]].kids
           kb == out.objs[p[2]].kids
           next == {<<ka[i].v, kb[i].v>> :
                      i \in {j \in 1..Len(ka) :
                               j <= Len(kb) /\ ka[j].t = "obj" /\ kb[j].t = "obj"}}
       IN Corresponding((todo \cup next) \ (seen \cup {p}), seen \cup {p})
Pairs ==
  IF root.t = "obj" /\ out.root.t = "obj"
  THEN Corresponding({<<root.v, out.root.v>>}, {}) ELSE {}

\* one level of deep equality: same type and own data, and the fields agree
\* where they are not objects
SameShape(a, b) ==
  LET x == heap[a]
      y == out.objs[b]
  IN /\ [x EXCEPT !.kids = <<>>] = [y EXCEPT !.kids = <<>>]
     /\ Len(x.kids) = Len(y.kids)
     /\ \A i \in 1..Len(x.kids) :
          IF x.kids[i].t = "obj" THEN y.kids[i].t = "obj" ELSE x.kids[i] = y.kids[i]
DeepEqual ==
  IF root.t = "obj"
  THEN out.root.t = "obj" /\ \A p \in Pairs : SameShape(p[1], p[2])
  ELSE out.root = root

\* the value holds nothing but primitives, plain records, arrays and built-ins
PlainValue ==
  /\ root.t \in {"prim", "string", "undefined", "obj"}
  /\ \A a \in 1..Len(heap) :
       /\ heap[a].kind # "Class"
       /\ \A i \in 1..Len(heap[a].kids) :
            heap[a].kids[i].t \in {"prim", "string", "undefined", "obj"}

\* ---------------------------------------------------------------- claims

\* C1: for every value built only from primitives, plain records, arrays and
\* the four built-ins, with an empty registry and no option hooks,
\* deserialize(serialize(v)) returns a value deeply equal to v.
C1_RoundTrip ==
  (op = "deserialize" /\ PlainValue /\ constructors = <<>> /\ options = NoOptions)
    => (ok /\ DeepEqual)

\* C2: two positions of the input hold the same object exactly when the
\* corresponding positions of deserialize(serialize(v)) hold the same object.
C2_IdentityRestored ==
  (op = "deserialize" /\ ok)
    => \A p, q \in Pairs : (p[1] = q[1]) <=> (p[2] = q[2])

\* C3: every compound value reached at n >= 1 positions is emitted as exactly
\* one full node and n - 1 ReferenceNodes carrying that node's id.
C3_EmittedOnce ==
  (op = "serialize" /\ ok)
    => \A a \in Visited :
         /\ Cardinality(FullNodes(a)) = 1
         /\ \A n \in FullNodes(a) : References(wire.nodes[n].id) = Positions(a) - 1

\* the nodes above node n in the returned tree, and n itself
Parents(n) ==
  {m \in 1..Len(wire.nodes) : \E i \in DOMAIN wire.nodes[m].kids : wire.nodes[m].kids[i] = NodeV(n)}
RECURSIVE Ancestors(_)
Ancestors(n) == {n} \cup UNION {Ancestors(m) : m \in Parents(n)}
IsRecordNode(n) == wire.nodes[n].type \in {"object", "instance"}

SelfCycle == <<Record(<<Prim(10), ObjV(1)>>)>>
MutualCycle == <<Record(<<Prim(10), ObjV(2)>>), Record(<<ObjV(1)>>)>>

\* C4: on a cycle of plain records or registered instances, the edge that
\* closes the cycle is a ReferenceNode with the id of the full node of the
\* object visited first, which carries an id; a record or instance node
\* carries an id exactly when its object is reached a second time; and
\* {x: 10, circular: self} yields id 0 and Reference{id: 0} on a new serializer.
C4_CycleShape ==
  (op = "serialize" /\ ok) =>
    /\ \A n \in 1..Len(wire.nodes) : \A i \in DOMAIN wire.nodes[n].kids :
         IsRecordNode(n) =>
           \A m \in Ancestors(n) :
             (IsRecordNode(m) /\ heap[wire.origin[n]].kids[i] = ObjV(wire.origin[m])) =>
               /\ wire.nodes[m].id # NoId
               /\ wire.nodes[n].kids[i] = RefV(wire.nodes[m].id)
    /\ \A m \in 1..Len(wire.nodes) :
         IsRecordNode(m) => (wire.nodes[m].id # NoId <=> Positions(wire.origin[m]) >= 2)
    /\ (heap = SelfCycle /\ counter = 1) =>
         /\ wire.nodes[1].id = SomeId(0)
         /\ wire.nodes[1].kids = <<Prim(10), RefV(SomeId(0))>>
C4_Witness ==
  /\ op = "serialize" /\ ok /\ heap = MutualCycle
  /\ wire.nodes[1].id # NoId
  /\ wire.nodes[2].id = NoId
  /\ wire.nodes[2].kids = <<RefV(wire.nodes[1].id)>>

IdsPresent ==
  {wire.nodes[n].id[1] : n \in {m \in 1..Len(wire.nodes) : wire.nodes[m].id # NoId}}

\* C5: the ids present in the node any top-level serialize call returns,
\* the second call on one serializer included, are exactly 0, 1, ..., k-1.
C5_IdsFromZero ==
  (op = "serialize" /\ ok) => IdsPresent = 0..(Cardinality(IdsPresent) - 1)

\* C6: a serialize call returns the node the first serialize call of the same
\* unchanged graph returned, whatever calls were made on the serializer before.
C6_NoStateAcrossCalls ==
  (op = "serialize") => wire = first

\* C7 as claimed: serialize of a graph that contains an unregistered
\* constructed instance at any depth fails.
C7_UnregisteredAnywhere ==
  (op = "serialize" /\ \E a \in 1..Len(heap) : Unregistered(a)) => ~ok

\* C7: serialize fails, and returns no node, exactly when the traversal
\* reaches a constructed instance whose type matches no registry entry; with
\* an entry for that type the same graph is serialized.
C7_UnregisteredReached ==
  (op = "serialize") =>
    /\ ~ok <=> \E a \in Visited : Unregistered(a)
    /\ ~ok => wire = NoWire
C7_Witness ==
  /\ op = "serialize" /\ ~ok /\ constructors = Registry
  /\ heap = <<Record(<<ObjV(2)>>), Instance("Ghost", <<Prim(10)>>)>>

\* the nodes of the given tree whose children deserialize decodes
Recurses(n) ==
  LET nd == wire.nodes[n] IN
  \/ nd.type \in {"array", "object"}
  \/ nd.type = "builtin" /\ nd.class \in {"Map", "Set"}
  \/ nd.type = "instance" /\ FindCtorNamed(nd.class) # <<>>
  \/ /\ nd.type = "custom" /\ FindCtorNamed(nd.class) # <<>>
     /\ FindCtorNamed(nd.class)[1].deserializer = "nested"
RECURSIVE DecodedFrom(_, _)
DecodedFrom(todo, seen) ==
  IF todo = {} THEN seen
  ELSE LET n == CHOOSE x \in todo : TRUE
           ks == IF Recurses(n) THEN wire.nodes[n].kids ELSE <<>>
           next == {ks[i].v : i \in {j \in DOMAIN ks : ks[j].t = "node"}}
       IN DecodedFrom((todo \cup next) \ (seen \cup {n}), seen \cup {n})
Decoded == IF wire.root.t = "node" THEN DecodedFrom({wire.root.v}, {}) ELSE {}
Decoding == op \in {"decoded", "deserialize"}

\* C8: deserialize of a tree with an InstanceNode or CustomNode whose class
\* matches no alias-name and no constructor name of the registry fails.
C8_UnknownTypeFails ==
  (Decoding /\ \E n \in Decoded :
      /\ wire.nodes[n].type \in {"instance", "custom"}
      /\ FindCtorNamed(wire.nodes[n].class) = <<>>)
    => ~ok

\* the ReferenceNodes deserialize reaches
ReferencesDecoded ==
  UNION {{wire.nodes[n].kids[i].v :
            i \in {j \in DOMAIN wire.nodes[n].kids : wire.nodes[n].kids[j].t = "reference"}} :
           n \in {m \in Decoded : Recurses(m)}}

\* C9: deserialize fails when it reaches a ReferenceNode whose id is missing
\* or is carried by no node of the tree.
C9_DanglingFails ==
  (Decoding /\ \E id \in ReferencesDecoded :
      id = NoId \/ \A m \in 1..Len(wire.nodes) : wire.nodes[m].id # id)
    => ~ok

\* C10: deserialize of a CustomNode whose class matches a registry entry
\* without a deserializer hook fails and returns no value.
C10_MissingDeserializer ==
  (Decoding /\ \E n \in Decoded :
      /\ wire.nodes[n].type = "custom"
      /\ FindCtorNamed(wire.nodes[n].class) # <<>>
      /\ FindCtorNamed(wire.nodes[n].class)[1].deserializer = "none")
    => (~ok /\ out = NoOut)
C10_Witness ==
  /\ op = "deserialize" /\ ~ok /\ out = NoOut
  /\ heap = <<Array(<<ObjV(2)>>), Instance("Orphan", <<Prim(10)>>)>>
  /\ wire.nodes[2].type = "custom" /\ wire.nodes[2].class = "Orphan"

\* the name of a registry entry: its alias name, else its constructor's name
EntryName(e) == IF e.name # NoName THEN e.name ELSE CtorName(e.ctor)

\* node n holds what the serializer hook of entry e returns for object a: the
\* string built from the fields, or the fields with the objects among them
\* replaced by what the serialize callback returned
HookReturned(e, a, n) ==
  LET ks == heap[a].kids
      ps == wire.nodes[n].kids
  IN IF e.serializer = "flat"
     THEN ps = [i \in 1..Len(ks) |-> Interpolate(ks[i])]
     ELSE /\ Len(ps) = Len(ks)
          /\ \A i \in 1..Len(ks) :
               IF ks[i].t = "obj" THEN ps[i].t \in {"node", "reference"} ELSE ps[i] = ks[i]

\* object b of the result is what the deserializer hook of entry e returns
\* for node n: a new e.ctor made from the payload
HookResult(e, n, b) ==
  LET ps == wire.nodes[n].kids
      o == out.objs[b]
  IN /\ o.kind = "Class" /\ o.ctor = e.ctor
     /\ Len(o.kids) = Len(ps)
     /\ \A i \in 1..Len(ps) :
          IF ps[i].t \in {"prim", "string"} THEN o.kids[i] = ps[i]
          ELSE IF e.deserializer = "flat" THEN o.kids[i] = Undefined
          ELSE o.kids[i].t = "obj"

\* the objects of the result built for node n
BuiltFor(n) == {b \in 1..Len(out.objs) : out.from[b] = n}

\* C11: every instance whose registry entry has a serializer hook is emitted
\* as a CustomNode with the entry's name and the hook's return value as
\* payload, never as an InstanceNode; and when the entry has a deserializer
\* hook, deserialize returns for that node the hook's return value.
C11_CustomPrecedence ==
  /\ (op = "serialize" /\ ok) =>
       \A n \in 1..Len(wire.nodes) :
         LET a == wire.origin[n]
             e == FindCtorOf(a)
         IN (a # 0 /\ heap[a].kind = "Class" /\ e # <<>> /\ e[1].serializer # "none") =>
              /\ wire.nodes[n].type = "custom"
              /\ wire.nodes[n].class = EntryName(e[1])
              /\ HookReturned(e[1], a, n)
  /\ (op = "deserialize" /\ ok) =>
       \A n \in Decoded :
         wire.nodes[n].type = "custom" =>
           LET e == FindCtorNamed(wire.nodes[n].class) IN
           /\ e # <<>> /\ e[1].deserializer # "none"
           /\ Cardinality(BuiltFor(n)) = 1
           /\ \A b \in BuiltFor(n) : HookResult(e[1], n, b)
           /\ wire.root = NodeV(n) => out.root \in {ObjV(b) : b \in BuiltFor(n)}
C11_Witness ==
  /\ op = "deserialize" /\ ok
  /\ heap = <<Instance("Meta", <<ObjV(2)>>), Instance("Point", <<Prim(10)>>)>>
  /\ wire.nodes[1].type = "custom" /\ wire.nodes[1].class = "CLS_META"
  /\ wire.nodes[2].type = "custom" /\ wire.nodes[2].kids = <<Prim(10)>>
  /\ out.objs = heap

\* each entry of the registry has an alias name no other entry has
DistinctAliases ==
  \A i \in 1..Len(constructors) :
    /\ constructors[i].name # NoName
    /\ \A j \in 1..Len(constructors) : i # j => constructors[i].name # constructors[j].name

\* C12: with a registry in which each entry has its own distinct alias name,
\* an instance serialize encoded through an entry is rebuilt by deserialize
\* as an instance of that entry's constructor.
C12_AliasesDisambiguate ==
  (op = "deserialize" /\ ok /\ DistinctAliases) =>
    \A b \in 1..Len(out.objs) :
      LET n == out.from[b] IN
      wire.nodes[n].type = "instance" =>
        out.objs[b].ctor = FindCtorOf(wire.origin[n])[1].ctor

\* C13: the class a node made for a constructed instance carries is the alias
\* name of the registry entry serialize selected for the value, and the
\* intrinsic name of that entry's constructor when the entry has no alias name.
C13_ClassNameWritten ==
  (op = "serialize" /\ ok) =>
    \A n \in 1..Len(wire.nodes) :
      LET a == wire.origin[n] IN
      (a # 0 /\ heap[a].kind = "Class") =>
        /\ wire.nodes[n].type \in {"instance", "custom"}
        /\ wire.nodes[n].class = EntryName(FindCtorOf(a)[1])

\* the value deserialize returns for child c of a decoded node
DecodedAs(c, v) ==
  IF c.t \in {"prim", "string", "undefined"} THEN v = c
  ELSE IF c.t = "reference" THEN v.t = "obj"
  ELSE IF c.t = "node"
  THEN IF wire.nodes[c.v].type = "instance" /\ FindCtorNamed(wire.nodes[c.v].class) = <<>>
       THEN v = Undefined
       ELSE v \in {ObjV(b) : b \in BuiltFor(c.v)}
  ELSE TRUE

\* the fields of two objects are equal where they are not objects, and objects
\* where they are
FieldsAgree(x, y) ==
  /\ x.keys = y.keys
  /\ Len(x.kids) = Len(y.kids)
  /\ \A i \in 1..Len(x.kids) :
       IF x.kids[i].t = "obj" THEN y.kids[i].t = "obj" ELSE x.kids[i] = y.kids[i]

\* C14: for every InstanceNode whose class matches a registry entry,
\* deserialize returns one new object of the entry's constructor whose fields
\* are the node's fields, in order, each the decoded value of the node's
\* field; decoded from a serialize output, the fields equal the fields of the
\* instance that was encoded.
C14_DefaultInstance ==
  (Decoding /\ ok) =>
    \A n \in Decoded :
      LET nd == wire.nodes[n]
          e == FindCtorNamed(nd.class)
      IN (nd.type = "instance" /\ e # <<>>) =>
           /\ Cardinality(BuiltFor(n)) = 1
           /\ \A b \in BuiltFor(n) :
                LET o == out.objs[b] IN
                /\ o.kind = "Class" /\ o.ctor = e[1].ctor
                /\ o.keys = nd.keys
                /\ Len(o.kids) = Len(nd.kids)
                /\ \A i \in 1..Len(nd.kids) : DecodedAs(nd.kids[i], o.kids[i])
                /\ op = "deserialize" => FieldsAgree(heap[wire.origin[n]], o)
           /\ wire.root = NodeV(n) => out.root \in {ObjV(b) : b \in BuiltFor(n)}
C14_Witness ==
  /\ op = "deserialize" /\ ok
  /\ heap = <<Instance("Human", <<Prim(10), ObjV(2)>>), Instance("Human2", <<>>)>>
  /\ wire.nodes[2].class = "CLS_HUMAN2"
  /\ out.objs = heap /\ out.root = ObjV(1)

\* child c of the returned tree is what serialize makes of the symbol or
\* function v: the node the option hook returned, else the name-only node
EncodedAs(v, c) ==
  LET hooked == IF v.t = "symbol" THEN options.serializeSymbol ELSE options.serializeFunction
      class == IF v.t = "symbol" THEN "Symbol" ELSE "Function"
  IN IF hooked
     THEN /\ c.t = "node"
          /\ wire.nodes[c.v] = [MkNode("custom", class, <<>>, 0, <<>>) EXCEPT !.kids = <<Prim(v.v)>>]
     ELSE c = IF v.t = "symbol" THEN SymN(SymDesc(v.v)) ELSE FunN(FunName(v.v))

\* value v is what deserialize makes of the SymbolNode or FunctionNode c: what
\* the option hook returned, else a new symbol of that description, or the
\* function's name
HookDecodedAs(c, v) ==
  IF c.t = "symbolnode"
  THEN IF options.deserializeSymbol THEN v = SymV(c.v)
       ELSE v.t = "symbol" /\ v.v >= 4 /\ SymDesc(v.v) = c.v
  ELSE IF options.deserializeFunction THEN v = FunV(c.v) ELSE v = Str(c.v)

\* C15: at every symbol or function position the returned node is the one
\* options.serializeSymbol / serializeFunction returned when that hook is
\* supplied and the name-only node when it is not, and the value deserialize
\* returns for a SymbolNode or FunctionNode is the one options.deserializeSymbol
\* / deserializeFunction returned when supplied and the default when not.
C15_HooksOverride ==
  /\ (op = "serialize" /\ ok) =>
       /\ root.t \in {"symbol", "function"} => EncodedAs(root, wire.root)
       /\ \A n \in 1..Len(wire.nodes) :
            LET a == wire.origin[n] IN
            (a # 0 /\ Entered(a)) =>
              \A i \in 1..Len(heap[a].kids) :
                heap[a].kids[i].t \in {"symbol", "function"} =>
                  EncodedAs(heap[a].kids[i], wire.nodes[n].kids[i])
  /\ (Decoding /\ ok) =>
       /\ wire.root.t \in {"symbolnode", "functionnode"} => HookDecodedAs(wire.root, out.root)
       /\ \A n \in Decoded : \A b \in BuiltFor(n) :
            (Recurses(n) /\ out.objs[b].kind \notin {"Set", "Map"}) =>
              \A i \in 1..Len(wire.nodes[n].kids) :
                wire.nodes[n].kids[i].t \in {"symbolnode", "functionnode"} =>
                  HookDecodedAs(wire.nodes[n].kids[i], out.objs[b].kids[i])
C15_Witness ==
  /\ op = "deserialize" /\ ok /\ options = DecodeHooks
  /\ heap = <<Record(<<SymV(2), FunV(1)>>)>>
  /\ wire.nodes[1].kids = <<SymN(0), FunN(1)>>
  /\ out.objs[1].kids = <<SymV(0), FunV(1)>>

\* the node types of the kind the first matching test of the priority order
\* gives object o
TypesOfKind(o) ==
  IF o.kind \in {"Date", "Map", "Set", "RegExp"} THEN {"builtin"}
  ELSE IF o.kind = "Array" THEN {"array"}
  ELSE IF o.kind = "NoProto" \/ CtorName(o.ctor) = "Object" THEN {"object"}
  ELSE {"instance", "custom"}

\* C16: every value is encoded as the first kind that matches in the order
\* primitive, symbol, function, built-in, array, plain record (base
\* constructor or no constructor), constructed instance: serialize fails only
\* for an unregistered constructed instance, and each node has the type of
\* its value's kind.
C16_ClassifierPriority ==
  (op = "serialize") =>
    /\ (\A a \in Visited : ~Unregistered(a)) => ok
    /\ ok =>
         /\ isPrimitiveType(root) => wire.root = root
         /\ isSymbol(root) => wire.root.t = "symbolnode"
         /\ isFunction(root) => wire.root.t = "functionnode"
         /\ \A n \in 1..Len(wire.nodes) :
              wire.origin[n] # 0 => wire.nodes[n].type \in TypesOfKind(heap[wire.origin[n]])

\* the ids of the ReferenceNodes of the returned tree
ReferenceIds ==
  (IF wire.root.t = "reference" THEN {wire.root.v} ELSE {})
  \cup UNION {{wire.nodes[n].kids[i].v :
                 i \in {j \in DOMAIN wire.nodes[n].kids : wire.nodes[n].kids[j].t = "reference"}} :
               n \in 1..Len(wire.nodes)}

\* C17: in the node a serialize call returns, a full node carries an id
\* exactly when a ReferenceNode with that id occurs in the same output, the
\* node of a value reached at a single position carries no id, and no two
\* full nodes carry the same id.
C17_LazyIds ==
  (op = "serialize" /\ ok) =>
    /\ \A n \in 1..Len(wire.nodes) :
         wire.nodes[n].id # NoId => wire.nodes[n].id \in ReferenceIds
    /\ \A id \in ReferenceIds :
         id # NoId /\ \E n \in 1..Len(wire.nodes) : wire.nodes[n].id = id
    /\ \A n \in 1..Len(wire.nodes) :
         (wire.origin[n] # 0 /\ Positions(wire.origin[n]) = 1) => wire.nodes[n].id = NoId
    /\ \A n, m \in 1..Len(wire.nodes) :
         (n # m /\ wire.nodes[n].id # NoId) => wire.nodes[n].id # wire.nodes[m].id
C17_Witness ==
  /\ op = "serialize" /\ ok
  /\ heap = <<Array(<<ObjV(2), ObjV(2)>>), MapObj(<<>>)>>
  /\ wire.nodes[1].id = NoId /\ wire.nodes[2].id # NoId
  /\ wire.nodes[1].kids = <<NodeV(2), RefV(wire.nodes[2].id)>>

\* the graph holds primitives, plain records, arrays, built-ins and instances
\* of registered types that are encoded field by field
DefaultEncoded ==
  /\ root.t \in {"prim", "string", "undefined", "obj"}
  /\ \A a \in Visited :
       /\ heap[a].kind = "Class" =>
            FindCtorOf(a) # <<>> /\ FindCtorOf(a)[1].serializer = "none"
       /\ \A i \in 1..Len(heap[a].kids) :
            heap[a].kids[i].t \in {"prim", "string", "undefined", "obj"}

\* the first node the traversal makes after position i of node n: nodes are
\* numbered in the order of the traversal, which the decoder follows
RECURSIVE NextAfter(_, _)
NextAfter(n, i) ==
  LET ks == wire.nodes[n].kids
      later == {ks[j].v : j \in {k \in DOMAIN ks : k > i /\ ks[k].t = "node"}}
      up == {m \in Parents(n) : m # n}
  IN IF later # {} THEN Min(later)
     ELSE IF up = {} THEN Len(wire.nodes) + 1
     ELSE LET p == CHOOSE m \in up : TRUE
              at == CHOOSE j \in DOMAIN wire.nodes[p].kids : wire.nodes[p].kids[j] = NodeV(n)
          IN NextAfter(p, at)

\* C18: in a serialize output of a graph of primitives, plain records, arrays,
\* built-ins and default-encoded registered instances, the full node with id k
\* comes before every ReferenceNode with id k in the traversal order, and
\* deserialize of the output does not fail.
C18_NoForwardReferences ==
  /\ (op = "serialize" /\ ok /\ DefaultEncoded) =>
       \A n \in 1..Len(wire.nodes) : \A i \in DOMAIN wire.nodes[n].kids :
         wire.nodes[n].kids[i].t = "reference" =>
           \E m \in 1..Len(wire.nodes) :
             /\ wire.nodes[m].id = wire.nodes[n].kids[i].v
             /\ m < NextAfter(n, i)
  /\ (op = "deserialize" /\ DefaultEncoded) => ok

\* the entries of a table made for node n, and the nodes below node n
EncoderEntries(n) == {i \in 1..Len(wire.table) : wire.table[i].result = n}
DecoderEntries(n) == {i \in 1..Len(out.table) : out.table[i].source = n}
Below(n) == {m \in 1..Len(wire.nodes) : m # n /\ n \in Ancestors(m)}

\* node n was entered into the visited-table before any node below it
PushedFirst(n) ==
  /\ \E i \in EncoderEntries(n) : wire.table[i].source = wire.origin[n]
  /\ \A m \in Below(n) : \A i \in EncoderEntries(n), j \in EncoderEntries(m) : i < j

\* the object built for node n was entered into the instance-table before
\* any node below n was decoded
RegisteredFirst(n) ==
  /\ \E i \in DecoderEntries(n) : out.table[i].result \in BuiltFor(n)
  /\ \A m \in Below(n) : \A i \in DecoderEntries(n), j \in DecoderEntries(m) : i < j

\* node n is of a kind the encoder enters into the visited-table
Compound(n) ==
  LET nd == wire.nodes[n] IN
  \/ nd.type \in {"array", "object", "instance"}
  \/ nd.type = "builtin" /\ nd.class \in {"Map", "Set", "RegExp"}
  \/ nd.type = "custom" /\ wire.origin[n] # 0

EnteredAs(a) == {wire.table[j].result : j \in {k \in 1..Len(wire.table) : wire.table[k].source = a}}

\* C20: a position of the returned tree holds a ReferenceNode exactly when the
\* value there is the very object of an entry the visited-table already has,
\* and the reference carries the id of that entry's node; primitives pass
\* through unchanged; and two distinct objects of equal structure have a full
\* node each.
C20_IdentityOnly ==
  (op = "serialize" /\ ok) =>
    /\ \A n \in 1..Len(wire.nodes) :
         LET a == wire.origin[n] IN
         (a # 0 /\ Entered(a)) =>
           \A i \in 1..Len(heap[a].kids) :
             LET v == heap[a].kids[i]
                 c == wire.nodes[n].kids[i]
             IN /\ isPrimitiveType(v) => c = v
                /\ c.t = "reference" <=>
                     (v.t = "obj" /\ EnteredAs(v.v) # {} /\ c \notin {NodeV(m) : m \in EnteredAs(v.v)})
                /\ c.t = "reference" => \A m \in EnteredAs(v.v) : c.v = wire.nodes[m].id
    /\ \A a, b \in Visited :
         (a # b /\ heap[a] = heap[b]) => (FullNodes(a) # {} /\ FullNodes(b) # {})
C20_Witness ==
  /\ op = "serialize" /\ ok
  /\ heap = <<Array(<<ObjV(2)>>), Array(<<ObjV(2)>>)>>
  /\ wire.nodes[1].kids = <<NodeV(2)>>
  /\ wire.nodes[2].kids = <<RefV(wire.nodes[2].id)>>
  /\ wire.nodes[1].id = NoId

\* how often x occurs in the sequence s
Times(s, x) == Cardinality({i \in 1..Len(s) : s[i] = x})
Running == run.phase # "idle"
\* the cycles of the value graph: objects that reach themselves
OnCycle(a) ==
  a \in Reach(heap, {heap[a].kids[i].v : i \in {j \in 1..Len(heap[a].kids) :
                                                  heap[a].kids[j].t = "obj"}}, {})
\* the calls followed step by step end with what the calls taken whole return
StepsAgree ==
  /\ (run.phase = "serialize" /\ ENABLED SerializeReturn) =>
       LET r == serialize(root) IN
       /\ r.st.err = run.st.err
       /\ r.st.err = "" => (r.st = run.st /\ r.out = Top.outs[1])
  /\ (run.phase = "deserialize" /\ ENABLED DeserializeReturn) =>
       LET r == deserialize(wire) IN
       /\ r.ds.err = run.ds.err
       /\ r.ds.err = "" => (r.ds = run.ds /\ r.out = Top.outs[1])

\* C21: with no custom hooks, every serialize call that has begun on a finite
\* value graph, cyclic or not, returns or throws, and the children of each
\* array, record, Map, Set or instance are entered once at most in one
\* top-level call; every deserialize call that has begun on a finite node
\* tree returns or throws, and is applied to each node once at most.
C21_AtMostOnce ==
  /\ \A a \in 1..Len(heap) : Times(run.entered, a) <= 1
  /\ \A n \in 1..Len(wire.nodes) : Times(run.decoded, n) <= 1
C21_Terminates == []C21_AtMostOnce /\ (Running ~> ~Running)
C21_Witness ==
  /\ op = "deserialize" /\ ok /\ ~Running
  /\ heap = <<Record(<<ObjV(2)>>), Record(<<ObjV(1)>>)>>
  /\ OnCycle(1) /\ OnCycle(2)
  /\ run.entered = <<1, 2>>
  /\ run.decoded = <<1, 2>>
  /\ wire.nodes[2].kids = <<RefV(wire.nodes[1].id)>>

====
